---- MODULE Spec2Model ----
(***************************************************************************)
(* A model of rscm-core: the ModelBuilder (component graph construction,   *)
(* unit checks, cycle check, collection preparation) and the Model runner  *)
(* (breadth-first stepping over the component graph), together with the    *)
(* TimeAxis / Timeseries / TimeseriesCollection substrate they use.        *)
(*                                                                         *)
(* Times and values are integers; the f32 "not a number" sentinel is the   *)
(* integer NaN.  Indices are 0-based as in the source; Seq positions are   *)
(* index + 1.  A Rust panic moves the program to pc = "panicked" and       *)
(* records the panicking site in `panic`.                                  *)
(***************************************************************************)
EXTENDS Integers, Sequences, FiniteSets, TLC

\* ------------------------------------------------------------------ bounds

\* Largest number of components registered with one builder.
MaxComponents == 3

\* Number of steps of the builder's default time axis (the source uses the
\* hundred years 2000..2100; the model keeps the shape with fewer steps).
DefaultAxisSteps == 3

\* Number of different values a component's solve may return for one step.
MaxSolveValue == 1

\* The longest array given to a TimeAxis constructor, and the largest time
\* in it
MaxAxisLen == 4

MaxAxisTime == 3

\* The longest Timeseries used on its own, the largest value stored in it
\* and the number of set calls made on it
MaxSeriesLen == 3

MaxSeriesValue == 1

MaxSetCalls == 2

\* Interpolation on its own: the largest time bound, the largest number of
\* values, and how far outside the bounds a target may lie
MaxInterpTime == 6

MaxInterpSteps == 3

InterpMargin == 2

\* The largest value held by a state built on its own
MaxStateValue == 2

\* A carbon-cycle solve on its own: the largest input value and the longest
\* interval [t_current, t_next], in sub-steps
MaxIvpValue == 1

MaxIvpSpan == 3

\* ------------------------------------------------------------- basic values

NaN == 0 - 1

is_nan(v) == v = NaN

None == [some |-> FALSE]

Some(v) == [some |-> TRUE, v |-> v]

Ok(v) == [ok |-> TRUE, v |-> v]

Err(e) == [ok |-> FALSE, e |-> e]

Min(a, b) == IF a < b THEN a ELSE b

Max(a, b) == IF a > b THEN a ELSE b

RECURSIVE Range(_, _)
\* Array::range(lo, hi, 1.0): lo, lo+1, ..., hi-1
Range(lo, hi) == IF lo >= hi THEN <<>> ELSE <<lo>> \o Range(lo + 1, hi)

\* The names of a sequence of records with a name field
\* The elements of a list
Elements(list) == {list[i] : i \in 1..Len(list)}

NamesOf(s) == [i \in 1..Len(s) |-> s[i].name]

SeqSet(s) == {s[i] : i \in 1..Len(s)}

\* --------------------------------------------------------------- TimeAxis

check_monotonic_increasing(arr) ==
    \A i \in 1..(Len(arr) - 1) : arr[i + 1] > arr[i]

\* TimeAxis::new asserts monotonicity
TimeAxis_new(bounds) ==
    IF check_monotonic_increasing(bounds) THEN Ok([bounds |-> bounds])
    ELSE Err("TimeAxis::new: not monotonic")

\* from_values taking the step from the first two values
TimeAxis_from_values_first_step(values) ==
    IF ~(Len(values) > 2) THEN Err("TimeAxis::from_values: len <= 2")
    ELSE LET step == values[2] - values[1]
             bounds == values \o <<values[Len(values)] + step>>
         IN TimeAxis_new(bounds)

TimeAxis_from_values(values) ==
    IF ~(Len(values) > 2) THEN Err("TimeAxis::from_values: len <= 2")
    ELSE LET step == values[Len(values)] - values[Len(values) - 1]
             bounds == values \o <<values[Len(values)] + step>>
         IN TimeAxis_new(bounds)

\* from_bounds stores the bounds as given
TimeAxis_from_bounds(bounds) ==
    IF ~(Len(bounds) > 1) THEN Err("TimeAxis::from_bounds: len <= 1")
    ELSE Ok([bounds |-> bounds])

TimeAxis_len(axis) == Len(axis.bounds) - 1

TimeAxis_values(axis) == SubSeq(axis.bounds, 1, TimeAxis_len(axis))

TimeAxis_at(axis, index) ==
    IF index < TimeAxis_len(axis) THEN Some(axis.bounds[index + 1]) ELSE None

TimeAxis_at_bounds(axis, index) ==
    IF index < TimeAxis_len(axis)
    THEN Some(<<axis.bounds[index + 1], axis.bounds[index + 2]>>)
    ELSE None

\* ----------------------------------------------------------- interpolation

\* binary_search_by(...).unwrap_or_else(|res| res): the index of an exact
\* match, else the insertion point (number of elements below the target)
find_segment_index(target, time_bounds) ==
    IF \E i \in 1..Len(time_bounds) : time_bounds[i] = target
    THEN (CHOOSE i \in 1..Len(time_bounds) : time_bounds[i] = target) - 1
    ELSE Cardinality({i \in 1..Len(time_bounds) : time_bounds[i] < target})

find_segment(target, time_bounds, extrapolate) ==
    LET end_segment_idx == find_segment_index(target, time_bounds)
        needs_extrap_forward == end_segment_idx = Len(time_bounds)
        needs_extrap_backward == ~needs_extrap_forward /\ end_segment_idx = 0
        needs_extrap == needs_extrap_backward \/ needs_extrap_forward
    IN  IF ~needs_extrap_forward /\ time_bounds[end_segment_idx + 1] = target
        THEN Ok([option |-> "OnBoundary", idx |-> end_segment_idx])
        ELSE IF needs_extrap /\ ~extrapolate
        THEN IF needs_extrap_backward
             THEN Err([kind |-> "ExtrapolationNotAllowed", target |-> target,
                       side |-> "start of", bound |-> time_bounds[1]])
             ELSE Err([kind |-> "ExtrapolationNotAllowed", target |-> target,
                       side |-> "end of",
                       bound |-> time_bounds[Len(time_bounds)]])
        ELSE IF needs_extrap_backward
        THEN Ok([option |-> "ExtrapolateBackward", idx |-> 0])
        ELSE IF needs_extrap_forward
        THEN Ok([option |-> "ExtrapolateForward", idx |-> Len(time_bounds)])
        ELSE Ok([option |-> "InSegment", idx |-> end_segment_idx])

\* the line without the division by the segment's length
linear_value_undivided(time1, time2, y1, y2, time_target) ==
    IF is_nan(y1) \/ is_nan(y2) THEN NaN
    ELSE (y2 - y1) * (time_target - time1) + y1

\* m * (time_target - time1) + y1 with m = (y2 - y1) / (time2 - time1);
\* a NaN operand gives NaN
linear_value(time1, time2, y1, y2, time_target) ==
    IF is_nan(y1) \/ is_nan(y2) THEN NaN
    ELSE ((y2 - y1) * (time_target - time1)) \div (time2 - time1) + y1

\* Interp1dLinearSpline::interpolate; an index outside an array panics
LinearSpline_interpolate(time, y, extrapolate, time_target) ==
    LET segment_info == find_segment(time_target, time, extrapolate)
    IN  IF ~segment_info.ok THEN segment_info
        ELSE LET segment_options == segment_info.v.option
                 end_segment_idx == Min(segment_info.v.idx, Len(y) - 1)
                 pts == CASE segment_options = "ExtrapolateBackward" -> <<0, 1>>
                          [] segment_options = "ExtrapolateForward" ->
                                 <<Len(y) - 2, Len(y) - 1>>
                          [] OTHER -> <<end_segment_idx - 1, end_segment_idx>>
             IN  IF segment_options = "OnBoundary"
                 THEN Ok(y[end_segment_idx + 1])
                 ELSE IF pts[1] < 0 \/ pts[2] >= Len(y)
                 THEN Err([kind |-> "panic", site |-> "index out of bounds"])
                 ELSE Ok(linear_value(time[pts[1] + 1], time[pts[2] + 1],
                                      y[pts[1] + 1], y[pts[2] + 1], time_target))

\* Previous taking the value at the end of the segment
Previous_interpolate_segment_end(time, y, extrapolate, time_target) ==
    LET segment_info == find_segment(time_target, time, extrapolate)
    IN  IF ~segment_info.ok THEN segment_info
        ELSE LET segment_options == segment_info.v.option
                 end_segment_idx == segment_info.v.idx
             IN  CASE segment_options = "ExtrapolateBackward" -> Ok(y[1])
                   [] segment_options = "ExtrapolateForward" -> Ok(y[Len(y)])
                   [] OTHER ->
                        IF end_segment_idx >= Len(y)
                        THEN Err([kind |-> "panic", site |-> "index out of bounds"])
                        ELSE Ok(y[end_segment_idx + 1])

\* Interp1DPrevious::interpolate
Previous_interpolate(time, y, extrapolate, time_target) ==
    LET segment_info == find_segment(time_target, time, extrapolate)
    IN  IF ~segment_info.ok THEN segment_info
        ELSE LET segment_options == segment_info.v.option
                 end_segment_idx == segment_info.v.idx
             IN  CASE segment_options = "OnBoundary" ->
                        IF end_segment_idx >= Len(y)
                        THEN Err([kind |-> "panic", site |-> "index out of bounds"])
                        ELSE Ok(y[end_segment_idx + 1])
                   [] segment_options = "ExtrapolateBackward" -> Ok(y[1])
                   [] segment_options = "ExtrapolateForward" -> Ok(y[Len(y)])
                   [] OTHER -> Ok(y[end_segment_idx])

\* Interp1D::is_in_range (ndarray_interp): within [x[0], x[last]]
is_in_range(xs, x) == xs[1] <= x /\ x <= xs[Len(xs)]

\* Interp1D::get_index_left_of (ndarray_interp): the index of the known
\* point left of or at x, never the right-most index
get_index_left_of(xs, x) ==
    IF x < xs[1] THEN 0
    ELSE IF x >= xs[Len(xs) - 1] THEN Len(xs) - 2
    ELSE (CHOOSE i \in 1..(Len(xs) - 1) : xs[i] <= x /\ x < xs[i + 1]) - 1

\* Next::interp_into over Interp1D::new_unchecked(time, y, strategy);
\* index_point(idx) reads x[idx] and data[idx], and panics outside data
Next_interp_into(time, y, extrapolate, x) ==
    IF ~extrapolate /\ ~is_in_range(time, x)
    THEN Err([kind |-> "OutOfBounds", target |-> x])
    ELSE LET idx == get_index_left_of(time, x)
         IN  IF idx + 1 >= Len(y)
             THEN Err([kind |-> "panic", site |-> "index out of bounds"])
             ELSE LET x1 == time[idx + 1]
                      y1 == y[idx + 1]
                      y2 == y[idx + 2]
                  IN  Ok(IF x1 < x THEN y1 ELSE y2)

\* InterpolationStrategy::interpolate dispatches on the strategy kind
Strategy_interpolate(strategy, time, y, time_target) ==
    CASE strategy.kind = "Linear" ->
            LinearSpline_interpolate(time, y, strategy.extrapolate, time_target)
      [] strategy.kind = "Previous" ->
            Previous_interpolate(time, y, strategy.extrapolate, time_target)
      [] strategy.kind = "Next" ->
            Next_interp_into(time, y, strategy.extrapolate, time_target)

\* ------------------------------------------------------------- Timeseries

RECURSIVE take_while_not_nan(_)
\* values.iter().take_while(|x| !x.is_nan()).count()
take_while_not_nan(values) ==
    IF values = <<>> \/ is_nan(Head(values)) THEN 0
    ELSE 1 + take_while_not_nan(Tail(values))

\* Timeseries::new (the length assertion is the caller's obligation here:
\* every series the model constructs has len(values) = axis.len())
Timeseries_new(values, time_axis, units, interpolation_strategy) ==
    [units |-> units, values |-> values, time_axis |-> time_axis,
     latest |-> take_while_not_nan(values),
     interpolation_strategy |-> interpolation_strategy]

\* The strategy of a series made without naming one: linear with
\* extrapolation (Timeseries::from_values)
DefaultStrategy == [kind |-> "Linear", extrapolate |-> TRUE]

Timeseries_new_empty(time_axis, units, interpolation_strategy) ==
    Timeseries_new([i \in 1..TimeAxis_len(time_axis) |-> NaN], time_axis,
                   units, interpolation_strategy)

Timeseries_len(ts) == Len(ts.values)

\* set taking the index written as the latest one
Timeseries_set_last_written(ts, time_index, value) ==
    IF ~(time_index < Timeseries_len(ts)) THEN Err("Timeseries::set: index >= len")
    ELSE Ok([ts EXCEPT !.values[time_index + 1] = value,
                       !.latest = IF is_nan(value) THEN @ ELSE time_index])

\* Timeseries::set: Err is the failed assertion time_index < len
Timeseries_set(ts, time_index, value) ==
    IF ~(time_index < Timeseries_len(ts)) THEN Err("Timeseries::set: index >= len")
    ELSE Ok([ts EXCEPT !.values[time_index + 1] = value,
                       !.latest = IF is_nan(value) THEN @ ELSE Max(@, time_index)])

\* Timeseries::at_time: the strategy over (axis.values(), values)
Timeseries_at_time(ts, time) ==
    Strategy_interpolate(ts.interpolation_strategy,
                         TimeAxis_values(ts.time_axis), ts.values, time)

\* Timeseries::latest_value: `(latest < 0) & (latest.to_usize().unwrap() <
\* len)` evaluates both sides, so a negative latest panics in unwrap; the
\* match is true for no other value, and the false arm indexes values
Timeseries_latest_value(ts) ==
    IF ts.latest < 0 THEN Err("latest_value: to_usize of a negative latest")
    ELSE IF ts.latest >= Timeseries_len(ts)
         THEN Err("latest_value: index out of bounds")
         ELSE Ok(Some(ts.values[ts.latest + 1]))

\* --------------------------------------------------- TimeseriesCollection

\* get_by_name: the first item with that name
get_by_name(coll, name) ==
    IF \E i \in 1..Len(coll) : coll[i].name = name
    THEN Some(coll[CHOOSE i \in 1..Len(coll) :
                     /\ coll[i].name = name
                     /\ \A j \in 1..(i - 1) : coll[j].name # name])
    ELSE None

get_timeseries(coll, name) ==
    LET item == get_by_name(coll, name)
    IN  IF item.some THEN Some(item.v.timeseries) ELSE None

\* add_timeseries without the test for a registered name
add_timeseries_unchecked(coll, name, timeseries, variable_type) ==
    Ok(Append(coll, [timeseries |-> timeseries, name |-> name,
                     variable_type |-> variable_type]))

\* add_timeseries panics when the name is already registered
add_timeseries(coll, name, timeseries, variable_type) ==
    IF \E i \in 1..Len(coll) : coll[i].name = name
    THEN Err("add_timeseries: already exists")
    ELSE Ok(Append(coll, [timeseries |-> timeseries, name |-> name,
                          variable_type |-> variable_type]))

\* get_timeseries_mut(name) followed by a write of the series
put_timeseries(coll, name, ts) ==
    LET i == CHOOSE k \in 1..Len(coll) :
                 /\ coll[k].name = name
                 /\ \A j \in 1..(k - 1) : coll[j].name # name
    IN  [coll EXCEPT ![i].timeseries = ts]

\* ------------------------------------------------------------- components

\* State (InputState / OutputState): parallel vectors of names and values
State_new(values, names) == [values |-> values, names |-> names]

State_empty == State_new(<<>>, <<>>)

State_has(state, name) == \E i \in 1..Len(state.names) : state.names[i] = name

\* State::get: the value at the first position of the name
State_get(state, name) ==
    state.values[CHOOSE i \in 1..Len(state.names) :
                    /\ state.names[i] = name
                    /\ \A j \in 1..(i - 1) : state.names[j] # name]

RECURSIVE State_merge(_, _)
\* merge: same-named entries are overridden, new names are appended
State_merge(state, other) ==
    IF other.names = <<>> THEN state
    ELSE LET n == Head(other.names)
             v == Head(other.values)
             rest == State_new(Tail(other.values), Tail(other.names))
             merged ==
                 IF State_has(state, n)
                 THEN State_new([i \in 1..Len(state.values) |->
                                    IF state.names[i] = n THEN v
                                    ELSE state.values[i]], state.names)
                 ELSE State_new(Append(state.values, v), Append(state.names, n))
         IN  State_merge(merged, rest)

ParameterDefinition(name, unit, parameter_type) ==
    [name |-> name, unit |-> unit, parameter_type |-> parameter_type]

\* The value TestComponent::extract_state returns for its input (1.3, in
\* tenths)
TestInputValue == 13

\* TestComponentParameters { p: 2.0 }
TestParameterP == 2

\* The components a builder can be given.  "T" is the example TestComponent
\* (emissions -> concentrations, with its own extract_state); the others
\* use the default extract_state:
\*   A  carries x from step to step        B  derives y from x
\*   M  derives x from y                   W  reads x and y
\*   S  declares its output x twice       V  derives y from x and y
\*   U  derives y from x, with x in another unit
Library ==
    [T |-> [definitions |-> <<ParameterDefinition("e", "GtCO2", "Input"),
                              ParameterDefinition("c", "ppm", "Output")>>,
            extract |-> "test"],
     A |-> [definitions |-> <<ParameterDefinition("x", "u", "Input"),
                              ParameterDefinition("x", "u", "Output")>>,
            extract |-> "default"],
     B |-> [definitions |-> <<ParameterDefinition("x", "u", "Input"),
                              ParameterDefinition("y", "u", "Output")>>,
            extract |-> "default"],
     M |-> [definitions |-> <<ParameterDefinition("y", "u", "Input"),
                              ParameterDefinition("x", "u", "Output")>>,
            extract |-> "default"],
     W |-> [definitions |-> <<ParameterDefinition("x", "u", "Input"),
                              ParameterDefinition("y", "u", "Input")>>,
            extract |-> "default"],
     V |-> [definitions |-> <<ParameterDefinition("x", "u", "Input"),
                              ParameterDefinition("y", "u", "Input"),
                              ParameterDefinition("y", "u", "Output")>>,
            extract |-> "default"],
     U |-> [definitions |-> <<ParameterDefinition("x", "v", "Input"),
                              ParameterDefinition("y", "u", "Output")>>,
            extract |-> "default"],
     S |-> [definitions |-> <<ParameterDefinition("x", "u", "Output"),
                              ParameterDefinition("x", "u", "Output")>>,
            extract |-> "default"]]

ComponentIds == DOMAIN Library

\* Every variable name a library component declares, in a fixed order
VariableNames == <<"c", "e", "x", "y">>

\* Component::inputs / outputs: the definitions of that parameter type
inputs(c) == SelectSeq(c.definitions, LAMBDA d : d.parameter_type = "Input")

outputs(c) == SelectSeq(c.definitions, LAMBDA d : d.parameter_type = "Output")

input_names(c) == NamesOf(inputs(c))

\* Component::output_names: as the source has it, the names of the inputs
output_names(c) == NamesOf(inputs(c))

\* ---------------------------------------------------------- component graph

\* Graph::add_edge
add_edge(edges, a, b, weight) == Append(edges, [src |-> a, dst |-> b, weight |-> weight])

RECURSIVE neighbors(_, _)
\* Graph::neighbors(a): the targets of a's outgoing edges, most recently
\* added edge first
neighbors(edges, a) ==
    IF edges = <<>> THEN <<>>
    ELSE LET e == edges[Len(edges)]
             rest == neighbors(SubSeq(edges, 1, Len(edges) - 1), a)
         IN  IF e.src = a THEN <<e.dst>> \o rest ELSE rest

RECURSIVE dfs_visitor(_, _, _)
RECURSIVE dfs_neighbors(_, _, _, _)
\* petgraph's depth_first_search with the visitor of is_valid_graph: a back
\* edge (to a discovered, unfinished node) between two different nodes is
\* an error, a self-referential one is not
dfs_visitor(edges, u, st) ==
    IF st.err \/ u \in st.discovered THEN st
    ELSE LET st1 == [st EXCEPT !.discovered = @ \cup {u}]
             st2 == dfs_neighbors(edges, u, neighbors(edges, u), st1)
         IN  [st2 EXCEPT !.finished = @ \cup {u}]

dfs_neighbors(edges, u, vs, st) ==
    IF st.err \/ vs = <<>> THEN st
    ELSE LET v == Head(vs)
             st1 == IF v \notin st.discovered THEN dfs_visitor(edges, v, st)
                    ELSE IF v \notin st.finished
                    THEN [st EXCEPT !.err = (u # v)]
                    ELSE st
         IN  dfs_neighbors(edges, u, Tail(vs), st1)

RECURSIVE dfs_from_all(_, _, _)
dfs_from_all(edges, starts, st) ==
    IF starts = <<>> THEN st
    ELSE dfs_from_all(edges, Tail(starts), dfs_visitor(edges, Head(starts), st))

\* is_valid_graph: TRUE when the search over all nodes reports an error,
\* that is, when the graph has a cycle that is not a self-loop
is_valid_graph(g) ==
    dfs_from_all(g.edges, [i \in 1..g.nodes |-> i - 1],
                 [discovered |-> {}, finished |-> {}, err |-> FALSE]).err

\* --------------------------------------------------------------- the state

VARIABLES
    pc,                   \* "builder", "model", "run", "step" or "panicked"
    panic,                \* the site of the panic, "" while there is none
    components,           \* ModelBuilder.components: library ids, in order
    exogenous_variables,  \* ModelBuilder.exogenous_variables
    initial_values,       \* ModelBuilder.initial_values
    time_axis,            \* ModelBuilder.time_axis, then Model.time_axis
    graph,                \* Model.components: [nodes, edges]
    collection,           \* Model.collection
    time_index,           \* Model.time_index
    bfs,                  \* the Bfs of the step under way: [stack, discovered]
    in_run,               \* TRUE while run() is the caller of step()
    order,                \* the step under way: the nodes given to process_node, in
                          \* order, each with whether its solve returned Ok
    last,                 \* what the latest process_node did
    axis_call,            \* a TimeAxis constructor call on its own: [ctor, input,
                          \* result], NoCall while there is none
    series,               \* a Timeseries on its own: [ctor, ts, calls, read,
                          \* failed], NoSeries while there is none
    fn_call               \* a function called on its own: [fn, args, result],
                          \* NoFnCall while there is none

vars == <<pc, panic, components, exogenous_variables, initial_values, time_axis,
          graph, collection, time_index, bfs, in_run, order, last,
          axis_call, series, fn_call>>

builder_vars == <<components, exogenous_variables, initial_values, time_axis>>

model_vars == <<graph, collection, time_index>>

step_vars == <<bfs, in_run, order, last>>

\* The objects used on their own, outside any builder or model
unit_vars == <<axis_call, series, fn_call>>

NoCall == [ctor |-> "", input |-> <<>>, result |-> None]

NoFnCall == [fn |-> "", args |-> <<>>, result |-> None]

NoSeries == [ctor |-> "", ts |-> None, calls |-> <<>>, read |-> None,
             failed |-> ""]

\* The node index of the sentinel the graph starts with
initial_node == 0

NoBfs == [stack |-> <<>>, discovered |-> {}]

NoLast == [node |-> 0, t |-> 0, extract |-> None, result |-> None]

\* ------------------------------------------------------------ ModelBuilder

\* verify_definition without its assertion: a later declaration is accepted
\* whatever its unit
verify_definition_unchecked(definitions, definition) ==
    IF definition.name \in DOMAIN definitions
    THEN Ok(definitions)
    ELSE Ok((definition.name :> [name |-> definition.name,
                                 unit |-> definition.unit]) @@ definitions)

\* verify_definition: a name declared before must carry the same unit
verify_definition(definitions, definition) ==
    IF definition.name \in DOMAIN definitions
    THEN IF definitions[definition.name].unit = definition.unit
         THEN Ok(definitions)
         ELSE Err("verify_definition: units differ")
    ELSE Ok((definition.name :> [name |-> definition.name,
                                 unit |-> definition.unit]) @@ definitions)

\* The locals of build() while the components are walked
BuildStart ==
    [edges |-> <<>>, endrogoneous |-> <<>>, exogenous |-> <<>>,
     definitions |-> <<>>, has_dependencies |-> FALSE, panic |-> ""]

RECURSIVE build_requires(_, _, _)
\* The loop over a component's inputs
build_requires(st, node, requires) ==
    IF st.panic # "" \/ requires = <<>> THEN st
    ELSE LET requirement == Head(requires)
             verified == verify_definition(st.definitions, requirement)
         IN  IF ~verified.ok THEN [st EXCEPT !.panic = verified.e]
             ELSE LET st1 == [st EXCEPT !.definitions = verified.v]
                      st2 ==
                        IF requirement.name \in SeqSet(st1.exogenous)
                        THEN IF requirement.name \notin DOMAIN st1.endrogoneous
                             THEN [st1 EXCEPT !.panic = "build: no producer recorded"]
                             ELSE [st1 EXCEPT
                                     !.edges = add_edge(@,
                                         st1.endrogoneous[requirement.name],
                                         node, Some(requirement)),
                                     !.has_dependencies = TRUE]
                        ELSE [st1 EXCEPT !.exogenous = Append(@, requirement.name)]
                  IN  build_requires(st2, node, Tail(requires))

RECURSIVE build_provides(_, _, _)
\* The loop over a component's outputs
build_provides(st, node, provides) ==
    IF st.panic # "" \/ provides = <<>> THEN st
    ELSE LET requirement == Head(provides)
             verified == verify_definition(st.definitions, requirement)
         IN  IF ~verified.ok THEN [st EXCEPT !.panic = verified.e]
             ELSE LET st1 == [st EXCEPT !.definitions = verified.v]
                      st2 ==
                        IF requirement.name \notin DOMAIN st1.endrogoneous
                        THEN [st1 EXCEPT !.endrogoneous =
                                 (requirement.name :> node) @@ @]
                        ELSE [st1 EXCEPT
                                 !.edges = add_edge(@,
                                     st1.endrogoneous[requirement.name],
                                     node, Some(requirement)),
                                 !.endrogoneous = (requirement.name :> node) @@ @]
                  IN  build_provides(st2, node, Tail(provides))

RECURSIVE build_components_always_linked(_, _, _)
\* The loop over the components with the test of has_dependencies left out:
\* every component is linked from the initial node
build_components_always_linked(st, comps, node) ==
    IF st.panic # "" \/ node > Len(comps) THEN st
    ELSE LET component == Library[comps[node]]
             st1 == build_requires([st EXCEPT !.has_dependencies = FALSE],
                                   node, inputs(component))
             st2 == IF st1.panic = ""
                    THEN [st1 EXCEPT !.edges =
                             add_edge(@, initial_node, node, None)]
                    ELSE st1
             st3 == build_provides(st2, node, outputs(component))
         IN  build_components_always_linked(st3, comps, node + 1)

RECURSIVE build_components(_, _, _)
\* The loop over the registered components; the k-th gets node k
build_components(st, comps, node) ==
    IF st.panic # "" \/ node > Len(comps) THEN st
    ELSE LET component == Library[comps[node]]
             st1 == build_requires([st EXCEPT !.has_dependencies = FALSE],
                                   node, inputs(component))
             st2 == IF st1.panic = "" /\ ~st1.has_dependencies
                    THEN [st1 EXCEPT !.edges =
                             add_edge(@, initial_node, node, None)]
                    ELSE st1
             st3 == build_provides(st2, node, outputs(component))
         IN  build_components(st3, comps, node + 1)

RECURSIVE build_collection(_, _, _, _, _, _)
\* The loop over the definitions that fills the model's collection
build_collection(coll, names, st, init, exo, axis) ==
    IF names = <<>> THEN Ok(coll)
    ELSE LET name == Head(names)
             rest == Tail(names)
         IN  IF name \notin DOMAIN st.definitions
             THEN build_collection(coll, rest, st, init, exo, axis)
             ELSE LET unit == st.definitions[name].unit
                      added ==
                        IF name \in SeqSet(st.exogenous)
                        THEN IF State_has(init, name)
                             THEN LET ts == Timeseries_set(
                                        Timeseries_new_empty(axis, unit, DefaultStrategy),
                                        0, State_get(init, name))
                                  IN  IF ~ts.ok THEN ts
                                      ELSE add_timeseries(coll, name, ts.v, "Endogenous")
                             ELSE LET timeseries == get_timeseries(exo, name)
                                  IN  IF timeseries.some
                                      THEN add_timeseries(coll, name, timeseries.v,
                                                          "Exogenous")
                                      ELSE Ok(coll)
                        ELSE add_timeseries(coll, name,
                                 Timeseries_new_empty(axis, unit, DefaultStrategy),
                                 "Endogenous")
                  IN  IF ~added.ok THEN added
                      ELSE build_collection(added.v, rest, st, init, exo, axis)

\* ModelBuilder::build as a function of the builder's fields: the panic
\* site, or the graph and the collection of the new Model
build(comps, exo, init, axis) ==
    LET st == build_components(BuildStart, comps, 1)
        g == [nodes |-> Len(comps) + 1, edges |-> st.edges]
    IN  IF st.panic # "" THEN Err(st.panic)
        ELSE IF is_valid_graph(g) THEN Err("build: cycle detected")
        ELSE LET coll == build_collection(<<>>, VariableNames, st, init, exo, axis)
             IN  IF ~coll.ok THEN coll
                 ELSE Ok([graph |-> g, collection |-> coll.v])

\* ------------------------------------------------- what the caller supplies

\* ModelBuilder::new: TimeAxis::from_values(Array::range(2000, 2100, 1))
DefaultTimeAxis ==
    TimeAxis_from_values(Range(0, DefaultAxisSteps)).v

\* The axes given to with_time_axis
SuppliedAxes == {TimeAxis_from_bounds(<<0, 1>>).v}

\* The series given to with_exogenous_variable: one that covers every
\* model time and extrapolates, one that ends early and does not
SuppliedSeries ==
    {Timeseries_new(<<7, 8, 9>>, TimeAxis_from_values(<<0, 1, 2>>).v, "u",
                    [kind |-> "Previous", extrapolate |-> TRUE]),
     Timeseries_new(<<7, 8>>, TimeAxis_from_bounds(<<0, 1, 2>>).v, "u",
                    [kind |-> "Linear", extrapolate |-> FALSE])}

SuppliedNames == {"x"}

\* The collections given to with_exogenous_collection
SuppliedCollections ==
    {<<[timeseries |-> Timeseries_new(<<7, 8, 9>>,
                                      TimeAxis_from_values(<<0, 1, 2>>).v, "u",
                                      [kind |-> "Previous", extrapolate |-> TRUE]),
        name |-> "x", variable_type |-> "Endogenous"],
       [timeseries |-> Timeseries_new(<<3, 4, 5>>,
                                      TimeAxis_from_values(<<0, 1, 2>>).v, "GtCO2",
                                      DefaultStrategy),
        name |-> "e", variable_type |-> "Exogenous"]>>}

\* The states given to with_initial_values
SuppliedInitialValues ==
    {State_new(<<5>>, <<"x">>), State_new(<<6, 5>>, <<"x", "y">>)}

\* The values solve may return for the step that ends at t_next: they tell
\* the steps apart, and differ from every supplied value
SolveValues(t_next) == {10 * t_next + k : k \in 1..MaxSolveValue}

\* ------------------------------------------------------------------- Init

\* ModelBuilder::new(); no Model exists yet
Init ==
    /\ pc = "builder"
    /\ panic = ""
    /\ components = <<>>
    /\ exogenous_variables = <<>>
    /\ initial_values = State_empty
    /\ time_axis = DefaultTimeAxis
    /\ graph = [nodes |-> 0, edges |-> <<>>]
    /\ collection = <<>>
    /\ time_index = 0
    /\ bfs = NoBfs
    /\ in_run = FALSE
    /\ order = <<>>
    /\ last = NoLast
    /\ axis_call = NoCall
    /\ series = NoSeries
    /\ fn_call = NoFnCall

\* A panic: the program stops where it is
Panic(site) ==
    /\ pc' = "panicked"
    /\ panic' = site

\* --------------------------------------------------------- builder actions

with_component(c) ==
    /\ pc = "builder"
    /\ UNCHANGED unit_vars
    /\ Len(components) < MaxComponents
    /\ components' = Append(components, c)
    /\ UNCHANGED <<pc, panic, exogenous_variables, initial_values, time_axis,
                   model_vars, step_vars>>

with_exogenous_variable(name, timeseries) ==
    /\ pc = "builder"
    /\ UNCHANGED unit_vars
    /\ LET added == add_timeseries(exogenous_variables, name, timeseries,
                                   "Exogenous")
       IN  IF added.ok
           THEN /\ exogenous_variables' = added.v
                /\ UNCHANGED <<pc, panic>>
           ELSE /\ Panic(added.e)
                /\ UNCHANGED exogenous_variables
    /\ UNCHANGED <<components, initial_values, time_axis, model_vars, step_vars>>

RECURSIVE add_all(_, _)
\* collection.into_iter().for_each(|x| add_timeseries(x.name, x.timeseries,
\* x.variable_type)): the first failing add panics
add_all(coll, items) ==
    IF items = <<>> THEN Ok(coll)
    ELSE LET added == add_timeseries(coll, Head(items).name,
                                     Head(items).timeseries,
                                     Head(items).variable_type)
         IN  IF added.ok THEN add_all(added.v, Tail(items)) ELSE added

with_exogenous_collection(coll) ==
    /\ pc = "builder"
    /\ UNCHANGED unit_vars
    /\ LET added == add_all(exogenous_variables, coll)
       IN  IF added.ok
           THEN /\ exogenous_variables' = added.v
                /\ UNCHANGED <<pc, panic>>
           ELSE /\ Panic(added.e)
                /\ UNCHANGED exogenous_variables
    /\ UNCHANGED <<components, initial_values, time_axis, model_vars, step_vars>>

with_initial_values(state) ==
    /\ pc = "builder"
    /\ UNCHANGED unit_vars
    /\ initial_values' = State_merge(initial_values, state)
    /\ UNCHANGED <<pc, panic, components, exogenous_variables, time_axis,
                   model_vars, step_vars>>

with_time_axis(axis) ==
    /\ pc = "builder"
    /\ UNCHANGED unit_vars
    /\ time_axis' = axis
    /\ UNCHANGED <<pc, panic, components, exogenous_variables, initial_values,
                   model_vars, step_vars>>

\* build(): Model::new(graph, initial_node, collection, time_axis) with
\* time_index 0, or the panic of a failed assertion
Build ==
    /\ pc = "builder"
    /\ UNCHANGED unit_vars
    /\ LET built == build(components, exogenous_variables, initial_values,
                          time_axis)
       IN  IF built.ok
           THEN /\ graph' = built.v.graph
                /\ collection' = built.v.collection
                /\ time_index' = 0
                /\ pc' = "model"
                /\ UNCHANGED panic
           ELSE /\ Panic(built.e)
                /\ UNCHANGED model_vars
    /\ UNCHANGED <<builder_vars, step_vars>>

\* ------------------------------------------------------------ the component

\* InputState::from_hashmap(items, expected_items): the names and values of
\* the first entry the drained map yields (any entry of the map), which
\* must equal the expected names.  `items` is a function from names to
\* values; the result is the set of possible outcomes.
from_hashmap(items, expected_items) ==
    LET taken == IF DOMAIN items = {} THEN {State_empty}
                 ELSE {State_new(<<items[k]>>, <<k>>) : k \in DOMAIN items}
    IN  {IF state.names = expected_items THEN Ok(state)
         ELSE Err("from_hashmap: names differ from the expected items") :
            state \in taken}

RECURSIVE extract_items(_, _, _, _)
\* The loop of the default extract_state: every input name is looked up in
\* the collection and evaluated at t_current; both results are unwrapped
extract_items(coll, names, t_current, state) ==
    IF names = <<>> THEN Ok(state)
    ELSE LET name == Head(names)
             ts == get_timeseries(coll, name)
         IN  IF ~ts.some THEN Err("extract_state: no timeseries of that name")
             ELSE LET value == Timeseries_at_time(ts.v, t_current)
                  IN  IF ~value.ok THEN Err("extract_state: at_time failed")
                      ELSE extract_items(coll, Tail(names), t_current,
                                         (name :> value.v) @@ state)

\* Component::extract_state: the outcomes, Ok(InputState) or Err(panic site).
\* TestComponent overrides it with InputState::new(vec![1.3], input_names()).
extract_state(component, coll, t_current) ==
    IF component.extract = "test"
    THEN IF Len(input_names(component)) = 1
         THEN {Ok(State_new(<<TestInputValue>>, input_names(component)))}
         ELSE {Err("InputState::new: lengths differ")}
    ELSE LET items == extract_items(coll, input_names(component), t_current, <<>>)
         IN  IF ~items.ok THEN {items}
             ELSE from_hashmap(items.v, input_names(component))

\* OutputState::new(values, names): the lengths must agree
OutputState_new(values, names) ==
    IF Len(values) = Len(names) THEN Ok(State_new(values, names))
    ELSE Err("OutputState::new: lengths differ")

\* Component::solve is the component's own.  TestComponent returns
\* OutputState::new(vec![emission_co2 * p], self.output_names()); the other
\* components build their state the same way from the values they compute,
\* or fail.  The outcomes: Ok(Ok(state)), Ok(Err(message)) or Err(panic site).
solve(component, t_current, t_next, input_state) ==
    IF component.extract = "test"
    THEN LET made == OutputState_new(
                         <<State_get(input_state, "e") * TestParameterP>>,
                         output_names(component))
         IN  {IF made.ok THEN Ok(made) ELSE made}
    ELSE {Ok(Err("solve failed"))} \cup
         {Ok(Ok(State_new(values, output_names(component)))) :
             values \in [1..Len(output_names(component)) -> SolveValues(t_next)]}

\* ----------------------------------------------------------------- Model

current_time == TimeAxis_at(time_axis, time_index).v

current_time_bounds == TimeAxis_at_bounds(time_axis, time_index).v

RECURSIVE write_outputs(_, _, _)
\* The Ok arm of process_node: every (key, value) of the output state is
\* set at index in the series of that name
write_outputs(coll, output_state, index) ==
    IF output_state.names = <<>> THEN Ok(coll)
    ELSE LET key == Head(output_state.names)
             value == Head(output_state.values)
             ts == get_timeseries(coll, key)
         IN  IF ~ts.some THEN Err("process_node: no timeseries of that name")
             ELSE LET set == Timeseries_set(ts.v, index, value)
                  IN  IF ~set.ok THEN set
                      ELSE write_outputs(put_timeseries(coll, key, set.v),
                               State_new(Tail(output_state.values),
                                         Tail(output_state.names)),
                               index)

\* process_node for the component at `node`
process_node(node) ==
    LET component == Library[components[node]]
    IN  \E extracted \in extract_state(component, collection, current_time) :
          IF ~extracted.ok
          THEN /\ Panic(extracted.e)
               /\ last' = [node |-> node, t |-> time_index,
                           extract |-> None, result |-> None]
               /\ order' = Append(order, [node |-> node, solved |-> FALSE])
               /\ UNCHANGED collection
          ELSE \E solved \in solve(component, current_time_bounds[1],
                                    current_time_bounds[2], extracted.v) :
                 IF ~solved.ok
                 THEN /\ Panic(solved.e)
                      /\ last' = [node |-> node, t |-> time_index,
                                  extract |-> Some(extracted.v), result |-> None]
                      /\ order' = Append(order, [node |-> node, solved |-> FALSE])
                      /\ UNCHANGED collection
                 ELSE LET result == solved.v
                          written == IF result.ok
                                     THEN write_outputs(collection, result.v,
                                                        time_index + 1)
                                     ELSE Ok(collection)
                      IN  /\ last' = [node |-> node, t |-> time_index,
                                      extract |-> Some(extracted.v),
                                      result |-> Some(result)]
                          /\ order' = Append(order, [node |-> node,
                                                     solved |-> result.ok])
                          /\ IF written.ok
                             THEN /\ collection' = written.v
                                  /\ UNCHANGED <<pc, panic>>
                             ELSE /\ Panic(written.e)
                                  /\ UNCHANGED collection

RECURSIVE bfs_push_undiscovered(_, _)
\* the loop pushing every successor, discovered or not
bfs_push_undiscovered(b, succs) ==
    IF succs = <<>> THEN b
    ELSE bfs_push_undiscovered([stack |-> Append(b.stack, Head(succs)),
                                discovered |-> b.discovered \cup {Head(succs)}],
                               Tail(succs))

RECURSIVE bfs_push(_, _)
\* The loop of Bfs::next over the successors: each one not yet discovered is
\* marked and pushed to the back
bfs_push(b, succs) ==
    IF succs = <<>> THEN b
    ELSE LET succ == Head(succs)
         IN  IF succ \in b.discovered THEN bfs_push(b, Tail(succs))
             ELSE bfs_push([stack |-> Append(b.stack, succ),
                            discovered |-> b.discovered \cup {succ}], Tail(succs))

\* Bfs::new(graph, start)
Bfs_new(start) == [stack |-> <<start>>, discovered |-> {start}]

\* The start of step(): the assertion, then step_model creates its Bfs
begin_step ==
    IF time_index < TimeAxis_len(time_axis)
    THEN /\ pc' = "step"
         /\ bfs' = Bfs_new(initial_node)
         /\ order' = <<>>
         /\ UNCHANGED panic
    ELSE /\ Panic("step: time_index >= time_axis.len()")
         /\ UNCHANGED <<bfs, order>>

\* step() called on the model
step ==
    /\ pc = "model"
    /\ UNCHANGED unit_vars
    /\ begin_step
    /\ in_run' = FALSE
    /\ UNCHANGED <<builder_vars, model_vars, last>>

\* run() called on the model
run ==
    /\ pc = "model"
    /\ UNCHANGED unit_vars
    /\ pc' = "run"
    /\ in_run' = TRUE
    /\ UNCHANGED <<panic, builder_vars, model_vars, bfs, order, last>>

\* The loop of run(): another step while time_index < len, else return
run_loop ==
    /\ pc = "run"
    /\ UNCHANGED unit_vars
    /\ IF time_index < TimeAxis_len(time_axis)
       THEN /\ begin_step
            /\ UNCHANGED in_run
       ELSE /\ pc' = "model"
            /\ in_run' = FALSE
            /\ UNCHANGED <<panic, bfs, order>>
    /\ UNCHANGED <<builder_vars, model_vars, last>>

\* One turn of the loop of step_model: bfs.next() and, for a component
\* node, process_node
step_model_next ==
    /\ pc = "step"
    /\ UNCHANGED unit_vars
    /\ bfs.stack # <<>>
    /\ LET nx == Head(bfs.stack)
       IN  /\ bfs' = bfs_push([bfs EXCEPT !.stack = Tail(@)],
                              neighbors(graph.edges, nx))
           /\ IF nx = initial_node
              THEN UNCHANGED <<pc, panic, collection, order, last>>
              ELSE process_node(nx)
    /\ UNCHANGED <<builder_vars, graph, time_index, in_run>>

\* The end of step(): the traversal is over, time_index += 1
step_end ==
    /\ pc = "step"
    /\ UNCHANGED unit_vars
    /\ bfs.stack = <<>>
    /\ time_index' = time_index + 1
    /\ pc' = IF in_run THEN "run" ELSE "model"
    /\ UNCHANGED <<panic, builder_vars, graph, collection, bfs, in_run, order, last>>

\* ------------------------------------------------------- the specification

Next ==
    \/ \E c \in ComponentIds : with_component(c)
    \/ \E name \in SuppliedNames, timeseries \in SuppliedSeries :
           with_exogenous_variable(name, timeseries)
    \/ \E coll \in SuppliedCollections : with_exogenous_collection(coll)
    \/ \E state \in SuppliedInitialValues : with_initial_values(state)
    \/ \E axis \in SuppliedAxes : with_time_axis(axis)
    \/ Build
    \/ step
    \/ run
    \/ run_loop
    \/ step_model_next
    \/ step_end

Spec == Init /\ [][Next]_vars

\* ------------------------------------------------- a TimeAxis on its own

\* The arrays a TimeAxis constructor is called with
AxisInputs == UNION {[1..n -> 0..MaxAxisTime] : n \in 0..MaxAxisLen}

\* TimeAxis::from_values(values), called once
from_values_call(values) ==
    /\ axis_call = NoCall
    /\ axis_call' = [ctor |-> "from_values", input |-> values,
                     result |-> Some(TimeAxis_from_values(values))]
    /\ UNCHANGED <<pc, panic, builder_vars, model_vars, step_vars, series, fn_call>>

\* TimeAxis::from_bounds(bounds), called once
from_bounds_call(bounds) ==
    /\ axis_call = NoCall
    /\ axis_call' = [ctor |-> "from_bounds", input |-> bounds,
                     result |-> Some(TimeAxis_from_bounds(bounds))]
    /\ UNCHANGED <<pc, panic, builder_vars, model_vars, step_vars, series, fn_call>>

NextTimeAxis ==
    \/ \E values \in AxisInputs : from_values_call(values)
    \/ \E bounds \in AxisInputs : from_bounds_call(bounds)

SpecTimeAxis == Init /\ [][NextTimeAxis]_vars

\* ----------------------------------------------- a Timeseries on its own

\* The axis of n steps a series is made over: bounds 0, 1, ..., n
SeriesAxis(n) == TimeAxis_from_bounds(Range(0, n + 1)).v

\* The values stored: the sentinel and the numbers 1..MaxSeriesValue
SeriesValues == {NaN} \cup 1..MaxSeriesValue

\* The arrays Timeseries::new is called with
SeriesInputs == UNION {[1..n -> SeriesValues] : n \in 1..MaxSeriesLen}

\* Timeseries::new(values, axis, "", strategy), over an axis of len(values)
new_call(values) ==
    /\ series = NoSeries
    /\ series' = [NoSeries EXCEPT
                      !.ctor = "new",
                      !.ts = Some(Timeseries_new(values, SeriesAxis(Len(values)),
                                                 "", DefaultStrategy))]
    /\ UNCHANGED <<pc, panic, builder_vars, model_vars, step_vars, axis_call,
                   fn_call>>

\* Timeseries::new_empty(axis, "", strategy), over an axis of n steps
new_empty_call(n) ==
    /\ series = NoSeries
    /\ series' = [NoSeries EXCEPT
                      !.ctor = "new_empty",
                      !.ts = Some(Timeseries_new_empty(SeriesAxis(n), "",
                                                       DefaultStrategy))]
    /\ UNCHANGED <<pc, panic, builder_vars, model_vars, step_vars, axis_call,
                   fn_call>>

\* The series exists and no call on it has panicked or read it
SeriesLive == series.ts.some /\ series.failed = "" /\ ~series.read.some

\* series.set(index, value): a failed assertion ends the program, a
\* completed call is appended to the history
set_call(index, value) ==
    /\ SeriesLive
    /\ Len(series.calls) < MaxSetCalls
    /\ LET r == Timeseries_set(series.ts.v, index, value)
       IN  series' = IF r.ok
                     THEN [series EXCEPT
                               !.ts = Some(r.v),
                               !.calls = Append(@, [time_index |-> index,
                                                    value |-> value])]
                     ELSE [series EXCEPT !.failed = r.e]
    /\ UNCHANGED <<pc, panic, builder_vars, model_vars, step_vars, axis_call,
                   fn_call>>

\* series.latest_value(): a panic ends the program
latest_value_call ==
    /\ SeriesLive
    /\ LET r == Timeseries_latest_value(series.ts.v)
       IN  series' = IF r.ok THEN [series EXCEPT !.read = Some(r.v)]
                     ELSE [series EXCEPT !.failed = r.e]
    /\ UNCHANGED <<pc, panic, builder_vars, model_vars, step_vars, axis_call,
                   fn_call>>

NextTimeseries ==
    \/ \E values \in SeriesInputs : new_call(values)
    \/ \E n \in 1..MaxSeriesLen : new_empty_call(n)
    \/ \E index \in 0..MaxSeriesLen, value \in SeriesValues :
           set_call(index, value)
    \/ latest_value_call

SpecTimeseries == Init /\ [][NextTimeseries]_vars

\* -------------------------------------------- interpolation on its own

\* The values interpolated: 5.0, 8.0 and 9.0 of the source's tests, doubled
\* so that the half-way points are whole numbers
InterpValues == {10, 16, 18}

\* The time bounds: every strictly increasing array over 0..MaxInterpTime
\* with one element more than the values
InterpTimes(n) ==
    {time \in [1..(n + 1) -> 0..MaxInterpTime] :
         check_monotonic_increasing(time)}

InterpTargets == (0 - InterpMargin)..(MaxInterpTime + InterpMargin)

\* The record of strategy.interpolate(time, y, target)
Interpolated(kind, extrapolate, time, y, target) ==
    [fn |-> kind,
     args |-> [extrapolate |-> extrapolate, time |-> time, y |-> y,
               target |-> target],
     result |-> Some(Strategy_interpolate(
                    [kind |-> kind, extrapolate |-> extrapolate],
                    time, y, target))]

\* The arguments of one call: [extrapolate, time, y, target]
InterpArgs ==
    UNION {BOOLEAN \X InterpTimes(n) \X [1..n -> InterpValues] \X InterpTargets :
               n \in 1..MaxInterpSteps}

\* Interp1dLinearSpline::new(time, y, extrapolate).interpolate(target)
linear_call ==
    /\ fn_call = NoFnCall
    /\ \E a \in InterpArgs :
           fn_call' = Interpolated("Linear", a[1], a[2], a[3], a[4])
    /\ UNCHANGED <<pc, panic, builder_vars, model_vars, step_vars, axis_call,
                   series>>

\* Interp1DPrevious::new(time, y, extrapolate).interpolate(target)
previous_call ==
    /\ fn_call = NoFnCall
    /\ \E a \in InterpArgs :
           fn_call' = Interpolated("Previous", a[1], a[2], a[3], a[4])
    /\ UNCHANGED <<pc, panic, builder_vars, model_vars, step_vars, axis_call,
                   series>>

\* Interp1D::new_unchecked(time, y, Next { extrapolate }).interp_scalar(target)
next_call ==
    /\ fn_call = NoFnCall
    /\ \E a \in InterpArgs :
           fn_call' = Interpolated("Next", a[1], a[2], a[3], a[4])
    /\ UNCHANGED <<pc, panic, builder_vars, model_vars, step_vars, axis_call,
                   series>>

NextInterpolate == linear_call \/ previous_call \/ next_call

SpecInterpolate == Init /\ [][NextInterpolate]_vars

\* ---------------------------------------------------- a State on its own

StateNames == {"x", "y", "z"}

\* The maps given to from_hashmap: any names, each with a value
StateItems ==
    UNION {[names -> 1..MaxStateValue] : names \in SUBSET StateNames}

\* The expected names: every list without repetition
ExpectedItems ==
    UNION {{e \in [1..n -> StateNames] :
                \A i, j \in 1..n : i # j => e[i] # e[j]} :
               n \in 0..Cardinality(StateNames)}

\* InputState::from_hashmap(items, expected_items), called once; the entry
\* the drained map yields first is any of its entries
InputState_from_hashmap_call ==
    /\ fn_call = NoFnCall
    /\ \E items \in StateItems, expected_items \in ExpectedItems :
           \E outcome \in from_hashmap(items, expected_items) :
               fn_call' = [fn |-> "InputState::from_hashmap",
                           args |-> [items |-> items,
                                     expected_items |-> expected_items],
                           result |-> Some(outcome)]
    /\ UNCHANGED <<pc, panic, builder_vars, model_vars, step_vars, axis_call,
                   series>>

\* OutputState::from_hashmap(items, expected_items): the same body
OutputState_from_hashmap_call ==
    /\ fn_call = NoFnCall
    /\ \E items \in StateItems, expected_items \in ExpectedItems :
           \E outcome \in from_hashmap(items, expected_items) :
               fn_call' = [fn |-> "OutputState::from_hashmap",
                           args |-> [items |-> items,
                                     expected_items |-> expected_items],
                           result |-> Some(outcome)]
    /\ UNCHANGED <<pc, panic, builder_vars, model_vars, step_vars, axis_call,
                   series>>

NextState == InputState_from_hashmap_call \/ OutputState_from_hashmap_call

SpecState == Init /\ [][NextState]_vars

\* ------------------------------------- an IVP-backed component on its own

\* GTC_PER_PPM = 2.13, in hundredths
GTC_PER_PPM == 213

\* CarbonCycleParameters of the carbon-cycle test: tau = 20.3 (to the whole
\* year), conc_pi = 280.0; alpha_temperature = 0.0 makes the lifetime tau
tau == 20

conc_pi == 280

\* The sub-step of to_rk4(t_current, t_next, 0.1); times are in tenths
SubStep == 1

\* CarbonCycleComponent::definitions
CarbonCycleComponent ==
    [definitions |-> <<
        ParameterDefinition("Emissions|CO2|Anthropogenic", "GtC / yr", "Input"),
        ParameterDefinition("Atmospheric Concentration|CO2", "ppm", "Input"),
        ParameterDefinition("Surface Temperature", "K", "Input"),
        ParameterDefinition("Atmospheric Concentration|CO2", "ppm", "Output"),
        ParameterDefinition("Land uptake|Cumulative", "ppm", "Output"),
        ParameterDefinition("Land uptake", "ppm", "Output"),
        ParameterDefinition("Cumulative Emissions|CO2", "ppm", "Output")>>]

\* The names solve reads for y0 and writes to its output map
ModelStateNames ==
    <<"Atmospheric Concentration|CO2", "Cumulative Land Uptake",
      "Cumulative Emissions|CO2">>

\* The names calculate_dy_dt reads
DerivativeNames ==
    <<"Emissions|CO2", "Surface Temperature", "Atmospheric Concentration|CO2">>

\* calculate_dy_dt: the derivative of the three state variables; State::get
\* of a name the state does not hold panics
calculate_dy_dt(t, input_state, y) ==
    IF \E i \in 1..Len(DerivativeNames) : ~State_has(input_state, DerivativeNames[i])
    THEN Err("State::get: no such name")
    ELSE LET emissions == State_get(input_state, "Emissions|CO2")
             conc == State_get(input_state, "Atmospheric Concentration|CO2")
             lifetime == tau
             uptake == (conc - conc_pi) \div lifetime
         IN  Ok(<<(emissions * 100) \div GTC_PER_PPM - uptake,
                  (uptake * GTC_PER_PPM) \div 100,
                  emissions>>)

\* One classical Runge-Kutta step of size h from (t, y): the four stages
\* evaluate the derivative with the same input state
rk4_step(t, y, h, input_state) ==
    LET Shift(v, k, num, den) == [i \in 1..Len(v) |-> v[i] + (num * k[i]) \div den]
        k1 == calculate_dy_dt(t, input_state, y)
        k2 == calculate_dy_dt(t + h \div 2, input_state, Shift(y, k1.v, h, 2))
        k3 == calculate_dy_dt(t + h \div 2, input_state, Shift(y, k2.v, h, 2))
        k4 == calculate_dy_dt(t + h, input_state, Shift(y, k3.v, h, 1))
    IN  IF ~k1.ok THEN k1
        ELSE Ok([i \in 1..Len(y) |->
                    y[i] + (h * (k1.v[i] + 2 * k2.v[i] + 2 * k3.v[i] + k4.v[i]))
                               \div 6])

RECURSIVE rk4_integrate(_, _, _, _, _, _)
\* The trajectory of sub-steps of size h from (t, y) until t_end, as the
\* list of points [t, y] after `results`
rk4_integrate(t, y, t_end, h, input_state, results) ==
    IF t >= t_end THEN Ok(results)
    ELSE LET next == rk4_step(t, y, h, input_state)
         IN  IF ~next.ok THEN next
             ELSE rk4_integrate(t + h, next.v, t_end, h, input_state,
                                Append(results, [t |-> t + h, y |-> next.v]))

\* get_last_step(results, t_next): the last point at or before t_next
get_last_step(results, t_next) ==
    LET at_or_before == {i \in 1..Len(results) : results[i].t <= t_next}
    IN  results[CHOOSE i \in at_or_before : \A j \in at_or_before : j <= i].y

\* CarbonCycleComponent::solve: the set of outcomes, Ok(OutputState) or
\* Err(panic site)
CarbonCycleComponent_solve(t_current, t_next, input_state) ==
    IF \E i \in 1..Len(ModelStateNames) : ~State_has(input_state, ModelStateNames[i])
    THEN {Err("State::get: no such name")}
    ELSE LET y0 == [i \in 1..3 |-> State_get(input_state, ModelStateNames[i])]
             trajectory == rk4_integrate(t_current, y0, t_next, SubStep, input_state,
                                         <<[t |-> t_current, y |-> y0]>>)
         IN  IF ~trajectory.ok THEN {trajectory}
             ELSE LET results == get_last_step(trajectory.v, t_next)
                      output == [name \in Elements(ModelStateNames) |->
                                    results[CHOOSE i \in 1..3 :
                                                ModelStateNames[i] = name]]
                  IN  from_hashmap(output, output_names(CarbonCycleComponent))

\* The names an input state handed to solve may hold
IvpNames ==
    <<"Emissions|CO2|Anthropogenic", "Emissions|CO2", "Surface Temperature",
      "Atmospheric Concentration|CO2", "Cumulative Land Uptake",
      "Cumulative Emissions|CO2">>

RECURSIVE Sublists(_)
\* Every list made of some of the elements of a list, in their order
Sublists(list) ==
    IF list = <<>> THEN {<<>>}
    ELSE LET rest == Sublists(Tail(list))
         IN  rest \cup {<<Head(list)>> \o r : r \in rest}

\* InputState::new(values, names) for every choice of names and values
IvpInputStates ==
    UNION {{State_new(values, names) :
                values \in [1..Len(names) -> 0..MaxIvpValue]} :
               names \in Sublists(IvpNames)}

\* component.solve(t_current, t_next, &input_state), called once
CarbonCycleComponent_solve_call ==
    /\ fn_call = NoFnCall
    /\ \E input_state \in IvpInputStates, span \in 1..MaxIvpSpan :
           \E outcome \in CarbonCycleComponent_solve(0, span * SubStep, input_state) :
               fn_call' = [fn |-> "CarbonCycleComponent::solve",
                           args |-> [t_current |-> 0, t_next |-> span * SubStep,
                                     input_state |-> input_state],
                           result |-> Some(outcome)]
    /\ UNCHANGED <<pc, panic, builder_vars, model_vars, step_vars, axis_call,
                   series>>

NextIvp == CarbonCycleComponent_solve_call

SpecIvp == Init /\ [][NextIvp]_vars

\* The builder alone: everything up to and including build()
NextBuilder ==
    \/ \E c \in ComponentIds : with_component(c)
    \/ \E name \in SuppliedNames, timeseries \in SuppliedSeries :
           with_exogenous_variable(name, timeseries)
    \/ \E coll \in SuppliedCollections : with_exogenous_collection(coll)
    \/ \E state \in SuppliedInitialValues : with_initial_values(state)
    \/ \E axis \in SuppliedAxes : with_time_axis(axis)
    \/ Build

SpecBuilder == Init /\ [][NextBuilder]_vars

\* ------------------------------------------------------------- properties

\* A Model exists: build() has returned one
Built == pc \in {"model", "run", "step"} \/ (pc = "panicked" /\ graph.nodes > 0)

\* The component registered at a node of the graph
ComponentAt(node) == Library[components[node]]

\* The names a component declares as outputs
DeclaredOutputs(node) == SeqSet(NamesOf(outputs(ComponentAt(node))))

DeclaredInputs(node) == SeqSet(input_names(ComponentAt(node)))

ComponentNodes == 1..Len(components)

\* process_node has just been carried out for some component
Processed == pc = "step" /\ order' # order

\* C1: for every built model, run() performs its steps without any of them
\* failing, never goes past the axis, and its loop is left only with
\* time_index = axis.len()
C1_RunCompletes ==
    in_run => /\ pc # "panicked"
              /\ time_index <= TimeAxis_len(time_axis)
              /\ (pc = "run" /\ ~(time_index < TimeAxis_len(time_axis))) =>
                     time_index = TimeAxis_len(time_axis)

\* C2: in the step at time_index = i, up to and including the last step of
\* the axis, every (name, value) of a successful solve is stored at index
\* i + 1 of the series the collection holds under that name
C2_OutputsStoredAtNextIndex ==
    (last.result.some /\ last.result.v.ok) =>
        \A k \in 1..Len(last.result.v.v.names) :
            LET ts == get_timeseries(collection, last.result.v.v.names[k])
            IN  ts.some =>
                    /\ last.t + 1 < Timeseries_len(ts.v)
                    /\ ts.v.values[last.t + 2] = last.result.v.v.values[k]

\* An edge that build() added for an input of its target
DependencyEdge(e) ==
    /\ e.src # e.dst
    /\ e.weight.some
    /\ e.weight.v.parameter_type = "Input"

\* C3: while a step runs, for every dependency edge A -> B (A # B) of the
\* built graph, A has been processed before B is
C3_ProducersBeforeConsumers ==
    \A e \in SeqSet(graph.edges) :
        (pc = "step" /\ DependencyEdge(e)) =>
            \A j \in 1..Len(order) :
                order[j].node = e.dst =>
                    \E i \in 1..(j - 1) : order[i].node = e.src

\* C4: when B is processed after a producer A of one of its inputs has
\* solved and written that variable in the same step i, the value B
\* extracts for it is the one at index i + 1 of the series
C4_ReadsSameStepOutput ==
    [][(Processed /\ last'.extract.some) =>
          \A e \in SeqSet(graph.edges) :
              ( /\ e.dst = last'.node
                /\ DependencyEdge(e)
                /\ e.weight.v.name \in SeqSet(output_names(ComponentAt(e.src)))
                /\ State_has(last'.extract.v, e.weight.v.name)
                /\ \E i \in 1..Len(order) :
                       order[i].node = e.src /\ order[i].solved ) =>
              State_get(last'.extract.v, e.weight.v.name) =
                  get_timeseries(collection, e.weight.v.name).v.values[time_index + 2]
      ]_vars

\* C5: the default extract_state never fails on the names it collected, and
\* the state it returns has exactly the component's input names, each with
\* at_time(t_current) for an Exogenous entry and latest_value() for an
\* Endogenous one
C5_ExtractByVariableKind ==
    [][(Processed /\ ComponentAt(last'.node).extract = "default") =>
          /\ panic' # "from_hashmap: names differ from the expected items"
          /\ last'.extract.some =>
               /\ last'.extract.v.names = input_names(ComponentAt(last'.node))
               /\ \A k \in 1..Len(last'.extract.v.names) :
                     LET item == get_by_name(collection, last'.extract.v.names[k]).v
                         expected ==
                             IF item.variable_type = "Exogenous"
                             THEN Timeseries_at_time(item.timeseries, current_time)
                             ELSE Timeseries_latest_value(item.timeseries)
                     IN  /\ expected.ok
                         /\ IF item.variable_type = "Exogenous"
                            THEN last'.extract.v.values[k] = expected.v
                            ELSE last'.extract.v.values[k] = expected.v.v
      ]_vars

\* The panics of a component's input extraction
ExtractionFailures ==
    {"extract_state: no timeseries of that name",
     "extract_state: at_time failed",
     "from_hashmap: names differ from the expected items"}

\* C6: a component failure does not abort the step: no extraction error ever
\* stops the program, and a component whose solve returned an error writes
\* nothing while the traversal goes on
C6_ComponentFailureContinues ==
    [][/\ panic' \notin ExtractionFailures
       /\ (Processed /\ last'.result.some /\ ~last'.result.v.ok) =>
              (collection' = collection /\ pc' = "step")
      ]_vars

\* C7: time_index is 0 after build, every step begun below axis.len() ends
\* with time_index one larger, time_index never exceeds axis.len(), and below
\* it current_time and current_time_bounds are the axis' values at time_index
C7_TimeIndexCounts ==
    [][/\ (pc = "builder" /\ pc' = "model") => time_index' = 0
       /\ (pc = "step" /\ pc' # "step") => time_index' = time_index + 1
       /\ Built' => time_index' <= TimeAxis_len(time_axis')
       /\ (Built' /\ time_index' < TimeAxis_len(time_axis')) =>
              /\ current_time' = time_axis'.bounds[time_index' + 1]
              /\ current_time_bounds' = <<time_axis'.bounds[time_index' + 1],
                                          time_axis'.bounds[time_index' + 2]>>
      ]_vars

\* The state of build() after its loop over the components
BuildLoop == build_components(BuildStart, components, 1)

\* An input of the component at node b that no earlier component declares
\* as an output
ExternalFor(b, n) ==
    /\ n \in DeclaredInputs(b)
    /\ \A a \in 1..(b - 1) : n \notin DeclaredOutputs(a)

\* C8: in a built model, every input n of a component B that an earlier
\* component A declares as an output has an edge A -> B labelled n, and n is
\* among the variables build treats as supplied from outside only when some
\* other component reads it without an earlier producer
C8_EdgeFromEarlierProducer ==
    Built =>
        \A b \in ComponentNodes : \A n \in DeclaredInputs(b) :
            (\E a \in 1..(b - 1) : n \in DeclaredOutputs(a)) =>
                /\ \E e \in SeqSet(graph.edges) :
                       /\ e.dst = b
                       /\ e.src \in 1..(b - 1)
                       /\ n \in DeclaredOutputs(e.src)
                       /\ e.weight.some
                       /\ e.weight.v.name = n
                       /\ e.weight.v.parameter_type = "Input"
                /\ n \in SeqSet(BuildLoop.exogenous) =>
                       \E c \in ComponentNodes : ExternalFor(c, n)

\* Two components each of which requires a variable the other produces
MutualDependency ==
    \E i, j \in ComponentNodes :
        /\ i # j
        /\ \E n \in DeclaredInputs(i) \cap DeclaredOutputs(j) :
               \E m \in DeclaredInputs(j) \cap DeclaredOutputs(i) : n # m

\* C9: build returns no model for components that depend on each other, in
\* either registration order, and rejects a graph for a cycle only when
\* there is such a dependency (a self-loop alone is accepted)
C9_RejectsCycles ==
    /\ Built => ~MutualDependency
    /\ panic = "build: cycle detected" => MutualDependency

\* The inputs that no registered component declares as an output
RequiredExternal ==
    UNION {DeclaredInputs(b) : b \in ComponentNodes}
        \ UNION {DeclaredOutputs(a) : a \in ComponentNodes}

\* C10: build never returns a Model whose collection lacks the series of a
\* required input that no component produces
C10_MissingExogenousDataRejected ==
    Built => \A n \in RequiredExternal : get_timeseries(collection, n).some

RECURSIVE DeclarationsOf(_)
\* The declarations of the registered components in the order build() meets
\* them: each component's inputs, then its outputs
DeclarationsOf(comps) ==
    IF comps = <<>> THEN <<>>
    ELSE inputs(Library[Head(comps)]) \o outputs(Library[Head(comps)])
             \o DeclarationsOf(Tail(comps))

\* Two declarations share a name and differ in their unit strings
UnitMismatch ==
    LET d == DeclarationsOf(components)
    IN  \E i, j \in 1..Len(d) : d[i].name = d[j].name /\ d[i].unit # d[j].unit

\* The unit of the first declaration of a name
FirstUnit(n) ==
    LET d == DeclarationsOf(components)
    IN  d[CHOOSE i \in 1..Len(d) :
              d[i].name = n /\ \A j \in 1..(i - 1) : d[j].name # n].unit

\* C11: build returns no model when two declarations of a name differ in
\* unit, the unit assertion fails only on such a difference, and the unit
\* kept for a name (and given to the series build allocates) is the first
\* one declared
C11_UnitsAgree ==
    /\ Built => ~UnitMismatch
    /\ panic = "verify_definition: units differ" => UnitMismatch
    /\ \A n \in DOMAIN BuildLoop.definitions :
           BuildLoop.definitions[n].unit = FirstUnit(n)
    /\ Built => \A k \in 1..Len(collection) :
           collection[k].variable_type = "Endogenous" =>
               collection[k].timeseries.units = FirstUnit(collection[k].name)

\* build() has stopped on two declarations of x that differ in unit
C11_Witness ==
    /\ pc = "panicked"
    /\ panic = "verify_definition: units differ"
    /\ \E i, j \in ComponentNodes :
           /\ i < j
           /\ components[j] = "U"
           /\ "x" \in DeclaredInputs(i) \cup DeclaredOutputs(i)

\* The names the registered components declare
DeclaredNames == {d.name : d \in SeqSet(DeclarationsOf(components))}

Produced(n) == \E a \in ComponentNodes : n \in DeclaredOutputs(a)

Required(n) == \E b \in ComponentNodes : n \in DeclaredInputs(b)

\* The builder was given a series, or an initial value, for the name
Supplied(n) == get_timeseries(exogenous_variables, n).some

HasInitial(n) == State_has(initial_values, n)

\* A series on the model's axis holding `first` at index 0 (NaN for none)
\* and nothing computed after it
FreshSeries(ts, first) ==
    /\ ts.time_axis = time_axis
    /\ Len(ts.values) = TimeAxis_len(time_axis)
    /\ \A i \in 1..Len(ts.values) :
           ts.values[i] = IF i = 1 THEN first ELSE NaN

\* C12: a built model's collection holds exactly one series for each
\* declared name: for a required name with an initial value and no series,
\* the initial value at index 0 of a fresh series on the model's axis; for
\* a produced name not supplied from outside, a fresh Endogenous series;
\* for every other required name the supplied series, Exogenous
C12_CollectionAfterBuild ==
    Built =>
        /\ \A k \in 1..Len(collection) : collection[k].name \in DeclaredNames
        /\ \A n \in DeclaredNames :
               /\ Cardinality({k \in 1..Len(collection) :
                                  collection[k].name = n}) = 1
               /\ LET item == get_by_name(collection, n).v
                  IN  IF Required(n) /\ HasInitial(n) /\ ~Supplied(n)
                      THEN FreshSeries(item.timeseries,
                                       State_get(initial_values, n))
                      ELSE IF Produced(n) /\ ~Supplied(n)
                      THEN /\ item.variable_type = "Endogenous"
                           /\ FreshSeries(item.timeseries, NaN)
                      ELSE Required(n) =>
                           /\ Supplied(n)
                           /\ item.variable_type = "Exogenous"
                           /\ item.timeseries =
                                  get_timeseries(exogenous_variables, n).v

\* The node has an edge that build() added for one of its inputs
HasDependencyEdge(k) ==
    \E e \in SeqSet(graph.edges) : e.dst = k /\ DependencyEdge(e)

LinkedFromInitial(k) ==
    \E e \in SeqSet(graph.edges) : e.src = initial_node /\ e.dst = k

\* The graph has one node per component besides node 0, nothing points at
\* node 0, and a component is linked from node 0 exactly when no edge was
\* added for one of its inputs
GraphShape ==
    /\ graph.nodes = Len(components) + 1
    /\ \A e \in SeqSet(graph.edges) :
           /\ e.dst \in ComponentNodes
           /\ e.src \in {initial_node} \cup ComponentNodes
    /\ \A k \in ComponentNodes : LinkedFromInitial(k) <=> ~HasDependencyEdge(k)

\* C13 as stated: the shape above, and the graph of any one-component model
\* is the single edge 0 -> 1
C13_GraphShapeSingleEdge ==
    Built =>
        /\ GraphShape
        /\ Len(components) = 1 =>
               graph.edges = <<[src |-> initial_node, dst |-> 1, weight |-> None]>>

\* The output names a component declares more than once
RepeatedOutputs(k) ==
    LET o == outputs(ComponentAt(k))
    IN  {o[i].name : i \in {j \in 1..Len(o) :
                               \E h \in 1..(j - 1) : o[h].name = o[j].name}}

\* C13, amended: the shape above, and the graph of a one-component model is
\* the edge 0 -> 1 followed only by self-loops 1 -> 1, one for each repeated
\* declaration of an output name (none when the output names are distinct)
C13_GraphShape ==
    Built =>
        /\ GraphShape
        /\ Len(components) = 1 =>
               /\ graph.edges[1] = [src |-> initial_node, dst |-> 1, weight |-> None]
               /\ \A i \in 2..Len(graph.edges) :
                      /\ graph.edges[i].src = 1
                      /\ graph.edges[i].dst = 1
                      /\ graph.edges[i].weight.some
                      /\ graph.edges[i].weight.v.name \in RepeatedOutputs(1)
               /\ RepeatedOutputs(1) = {} => Len(graph.edges) = 1

\* A built model in which one component hangs off the initial node and
\* another off the component that produces its input
C13_Witness ==
    /\ Built
    /\ \E j, k \in ComponentNodes :
           /\ LinkedFromInitial(j)
           /\ HasDependencyEdge(k)
           /\ ~LinkedFromInitial(k)

\* The names in a collection are pairwise distinct
DistinctNames(coll) ==
    \A i, j \in 1..Len(coll) : coll[i].name = coll[j].name => i = j

\* C14: every with_exogenous_variable and with_exogenous_collection call on
\* a builder succeeds, whether or not the name is registered already, and
\* leaves the builder with exactly one series for the name, the one given
\* last
C14_ReRegistrationReplaces ==
    [][/\ \A name \in SuppliedNames, timeseries \in SuppliedSeries :
              with_exogenous_variable(name, timeseries) =>
                  /\ pc' = "builder"
                  /\ DistinctNames(exogenous_variables')
                  /\ get_timeseries(exogenous_variables', name) = Some(timeseries)
       /\ \A coll \in SuppliedCollections :
              with_exogenous_collection(coll) =>
                  /\ pc' = "builder"
                  /\ DistinctNames(exogenous_variables')
                  /\ \A k \in 1..Len(coll) :
                         get_timeseries(exogenous_variables', coll[k].name)
                             = Some(coll[k].timeseries)
      ]_vars

\* C15: an add under a registered name fails, whatever the kinds, and leaves
\* the collection as it was; so the names of a collection stay pairwise
\* distinct and a name identifies at most one item
C15_NoDuplicateNames ==
    [][/\ DistinctNames(exogenous_variables')
       /\ DistinctNames(collection')
       /\ \A name \in SuppliedNames, timeseries \in SuppliedSeries :
              ( /\ with_exogenous_variable(name, timeseries)
                /\ get_by_name(exogenous_variables, name).some ) =>
                  /\ pc' = "panicked"
                  /\ exogenous_variables' = exogenous_variables
       /\ \A coll \in SuppliedCollections :
              ( /\ with_exogenous_collection(coll)
                /\ \E k \in 1..Len(coll) :
                       get_by_name(exogenous_variables, coll[k].name).some ) =>
                  /\ pc' = "panicked"
                  /\ exogenous_variables' = exogenous_variables
      ]_vars

\* An add of an Endogenous item named x, or of an Exogenous one, has failed
\* on a collection that holds x already
C15_Witness ==
    /\ pc = "panicked"
    /\ panic = "add_timeseries: already exists"
    /\ Len(exogenous_variables) = 1
    /\ exogenous_variables[1].name = "x"

\* A constructor has returned the axis
Constructed == axis_call.result.some /\ axis_call.result.v.ok

TheAxis == axis_call.result.v.v

StrictlyIncreasing(arr) ==
    \A i, j \in 1..Len(arr) : i < j => arr[i] < arr[j]

\* C16: both constructors fail on input that is not strictly increasing,
\* and every axis they return has strictly increasing bounds, so the end
\* of each step's bounds lies after its start
C16_AxisStrictlyIncreasing ==
    /\ (axis_call.result.some /\ ~StrictlyIncreasing(axis_call.input)) =>
           ~axis_call.result.v.ok
    /\ Constructed =>
           /\ StrictlyIncreasing(TheAxis.bounds)
           /\ \A i \in 0..(TimeAxis_len(TheAxis) - 1) :
                  TimeAxis_at_bounds(TheAxis, i).v[2] >
                      TimeAxis_at_bounds(TheAxis, i).v[1]

\* C17: from_values(v) fails unless len(v) > 2, and the axis it returns has
\* the bounds v followed by v[last] + (v[last] - v[last-1]): len() is
\* len(v), values() is v and the last step's bounds are that pair
C17_FromValues ==
    axis_call.ctor = "from_values" =>
        LET v == axis_call.input
            n == Len(v)
        IN  /\ n <= 2 => ~axis_call.result.v.ok
            /\ (n > 2 /\ StrictlyIncreasing(v)) => axis_call.result.v.ok
            /\ Constructed =>
                   /\ TheAxis.bounds = Append(v, v[n] + (v[n] - v[n - 1]))
                   /\ TimeAxis_len(TheAxis) = n
                   /\ TimeAxis_values(TheAxis) = v
                   /\ TimeAxis_at_bounds(TheAxis, n - 1) =
                          Some(<<v[n], v[n] + (v[n] - v[n - 1])>>)

\* from_values([1, 2, 3]) has returned an axis whose last bounds are (3, 4)
C17_Witness ==
    /\ axis_call.ctor = "from_values"
    /\ axis_call.input = <<1, 2, 3>>
    /\ Constructed
    /\ TimeAxis_at_bounds(TheAxis, 2) = Some(<<3, 4>>)

\* The largest index k with values[0..=k] all non-sentinel, -1 when
\* values[0] is the sentinel
ValidPrefixEnd(values) ==
    IF \E k \in 1..Len(values) : is_nan(values[k])
    THEN (CHOOSE k \in 1..Len(values) :
              /\ is_nan(values[k])
              /\ \A j \in 1..(k - 1) : ~is_nan(values[j])) - 2
    ELSE Len(values) - 1

\* C18: in every state of a series, after new or new_empty and any set
\* calls, latest is the end of the non-sentinel prefix of the values
C18_LatestIsValidPrefixEnd ==
    series.ts.some => series.ts.v.latest = ValidPrefixEnd(series.ts.v.values)

\* C19: latest_value() never fails and returns values[latest] when
\* 0 <= latest < len, absent otherwise; a new_empty series has latest -1
\* and no latest value, a series new from sentinel-free values returns its
\* last value
C19_LatestValue ==
    [][latest_value_call =>
           LET ts == series.ts.v
               len == Timeseries_len(ts)
               NoSets == series.calls = <<>>
           IN  /\ series'.failed = ""
               /\ series'.read.some
               /\ series'.read.v =
                      IF 0 <= ts.latest /\ ts.latest < len
                      THEN Some(ts.values[ts.latest + 1]) ELSE None
               /\ (series.ctor = "new_empty" /\ NoSets) =>
                      /\ ts.latest = 0 - 1
                      /\ series'.read.v = None
               /\ ( /\ series.ctor = "new" /\ NoSets
                    /\ \A k \in 1..len : ~is_nan(ts.values[k]) ) =>
                      series'.read.v = Some(ts.values[len])
      ]_vars

RECURSIVE MaxIndex(_)
\* The largest index written by a non-empty history of set calls
MaxIndex(calls) ==
    IF Len(calls) = 1 THEN calls[1].time_index
    ELSE Max(calls[1].time_index, MaxIndex(Tail(calls)))

\* C20: set never decreases latest and leaves it unchanged when the value
\* is the sentinel; after one or more sets of non-sentinel values on a
\* new_empty series, latest is the largest index written
C20_SetKeepsLatestMax ==
    [][( /\ series.ts.some
         /\ Len(series'.calls) = Len(series.calls) + 1 ) =>
           LET call == series'.calls[Len(series'.calls)]
               before == series.ts.v.latest
               after == series'.ts.v.latest
           IN  /\ after >= before
               /\ is_nan(call.value) => after = before
               /\ ( /\ series'.ctor = "new_empty"
                    /\ \A k \in 1..Len(series'.calls) :
                           ~is_nan(series'.calls[k].value) ) =>
                      after = MaxIndex(series'.calls)
      ]_vars

\* A new_empty series after set(2, 1) and set(1, 1): latest is still 2
C20_Witness ==
    /\ series.ctor = "new_empty"
    /\ Len(series.calls) = 2
    /\ series.calls[1].time_index = 2 /\ ~is_nan(series.calls[1].value)
    /\ series.calls[2].time_index = 1 /\ ~is_nan(series.calls[2].value)
    /\ series.ts.v.latest = 2

\* The point on the line through (t1, y1) and (t2, y2) at t
OnLine(t1, t2, y1, y2, t) == y1 + ((y2 - y1) * (t - t1)) \div (t2 - t1)

\* The call made on the strategy `kind`, with at least n values
Called(kind, n) == fn_call.fn = kind /\ Len(fn_call.args.y) >= n

\* C21: Linear, for a target within a segment between two values, returns
\* the point on the line through the segment's two ends, and at a bound
\* that has a value returns that value
C21_LinearInRange ==
    Called("Linear", 1) =>
        LET time == fn_call.args.time
            y == fn_call.args.y
            t == fn_call.args.target
        IN  /\ \A k \in 2..Len(y) :
                   (time[k - 1] <= t /\ t <= time[k]) =>
                       fn_call.result.v =
                           Ok(OnLine(time[k - 1], time[k], y[k - 1], y[k], t))
            /\ \A k \in 1..Len(y) :
                   t = time[k] => fn_call.result.v = Ok(y[k])

\* Bounds [0, 0.5, 1, 1.5] and values [5, 8, 9] at 0.25 give 6.5 (times in
\* quarters, values doubled)
C21_Witness ==
    /\ fn_call.fn = "Linear"
    /\ fn_call.args = [extrapolate |-> FALSE, time |-> <<0, 2, 4, 6>>,
                       y |-> <<10, 16, 18>>, target |-> 1]
    /\ fn_call.result.v = Ok(13)

\* C22: Linear with extrapolate = true evaluates a target before the first
\* time on the line through the first two points, and a target at or after
\* the final bound on the line through the last two values
C22_LinearExtrapolation ==
    (Called("Linear", 2) /\ fn_call.args.extrapolate) =>
        LET time == fn_call.args.time
            y == fn_call.args.y
            t == fn_call.args.target
            n == Len(y)
        IN  /\ t < time[1] =>
                   fn_call.result.v = Ok(OnLine(time[1], time[2], y[1], y[2], t))
            /\ t >= time[n + 1] =>
                   fn_call.result.v =
                       Ok(OnLine(time[n - 1], time[n], y[n - 1], y[n], t))

\* C23: each strategy, without extrapolation, fails outside the bounds with
\* ExtrapolationNotAllowed carrying the target, the side and the bound; with
\* extrapolation it returns a value for every target (over two or more
\* values, so that the line of the linear strategy exists)
C23_ExtrapolationPolicy ==
    (\E kind \in {"Linear", "Previous", "Next"} : Called(kind, 2)) =>
        LET time == fn_call.args.time
            t == fn_call.args.target
        IN  IF fn_call.args.extrapolate THEN fn_call.result.v.ok
            ELSE /\ t < time[1] =>
                        fn_call.result.v =
                            Err([kind |-> "ExtrapolationNotAllowed", target |-> t,
                                 side |-> "start of", bound |-> time[1]])
                 /\ t > time[Len(time)] =>
                        fn_call.result.v =
                            Err([kind |-> "ExtrapolationNotAllowed", target |-> t,
                                 side |-> "end of", bound |-> time[Len(time)]])

\* C24: Previous returns the value at the start of the segment strictly
\* inside it, the bound's own value at a bound that has one, the first
\* value before the first time and the last value after the final bound
C24_Previous ==
    Called("Previous", 1) =>
        LET time == fn_call.args.time
            y == fn_call.args.y
            t == fn_call.args.target
        IN  /\ \A k \in 2..Len(time) :
                   (time[k - 1] < t /\ t < time[k]) =>
                       fn_call.result.v = Ok(y[k - 1])
            /\ \A k \in 1..Len(y) :
                   t = time[k] => fn_call.result.v = Ok(y[k])
            /\ (t < time[1] /\ fn_call.args.extrapolate) =>
                   fn_call.result.v = Ok(y[1])
            /\ (t > time[Len(time)] /\ fn_call.args.extrapolate) =>
                   fn_call.result.v = Ok(y[Len(y)])

\* Bounds [0, 0.5, 1, 1.5] and values [5, 8, 9] at 0.75 give 8
C24_Witness ==
    /\ fn_call.fn = "Previous"
    /\ fn_call.args = [extrapolate |-> TRUE, time |-> <<0, 2, 4, 6>>,
                       y |-> <<10, 16, 18>>, target |-> 3]
    /\ fn_call.result.v = Ok(16)

\* C25: Next returns the value at the end of the segment (the last value
\* in the last segment) strictly inside it, the bound's own value at a
\* bound that has one, the first value before the first time and the last
\* value after the final bound
C25_Next ==
    Called("Next", 1) =>
        LET time == fn_call.args.time
            y == fn_call.args.y
            t == fn_call.args.target
        IN  /\ \A k \in 2..Len(time) :
                   (time[k - 1] < t /\ t < time[k]) =>
                       fn_call.result.v = Ok(y[Min(k, Len(y))])
            /\ \A k \in 1..Len(y) :
                   t = time[k] => fn_call.result.v = Ok(y[k])
            /\ (t < time[1] /\ fn_call.args.extrapolate) =>
                   fn_call.result.v = Ok(y[1])
            /\ (t > time[Len(time)] /\ fn_call.args.extrapolate) =>
                   fn_call.result.v = Ok(y[Len(y)])

\* C28: from_hashmap(items, expected) succeeds whenever the keys of items
\* are the expected names, however many, and get(name) then returns
\* items[name]; it fails when an expected name has no entry
C28_FromHashmap ==
    fn_call.fn \in {"InputState::from_hashmap", "OutputState::from_hashmap"} =>
        LET items == fn_call.args.items
            expected_items == fn_call.args.expected_items
            outcome == fn_call.result.v
        IN  /\ ( /\ expected_items # <<>>
                 /\ DOMAIN items = Elements(expected_items) ) =>
                   /\ outcome.ok
                   /\ \A name \in Elements(expected_items) :
                          /\ State_has(outcome.v, name)
                          /\ State_get(outcome.v, name) = items[name]
            /\ (\E name \in Elements(expected_items) : name \notin DOMAIN items) =>
                   ~outcome.ok

\* The input state holds every name the carbon-cycle solve reads
HoldsAllRead(input_state) ==
    \A name \in Elements(ModelStateNames) \cup Elements(DerivativeNames) :
        State_has(input_state, name)

\* C26: a solve of the IVP-backed component over [t_current, t_next]
\* integrates from y0 in sub-steps of h and returns the value of the last
\* point of the trajectory at or before t_next, and nothing else
C26_IvpSolveReturnsLastStep ==
    ( /\ fn_call.fn = "CarbonCycleComponent::solve"
      /\ HoldsAllRead(fn_call.args.input_state) ) =>
        LET a == fn_call.args
            y0 == [i \in 1..3 |-> State_get(a.input_state, ModelStateNames[i])]
            trajectory == rk4_integrate(a.t_current, y0, a.t_next, SubStep,
                                        a.input_state,
                                        <<[t |-> a.t_current, y |-> y0]>>)
            final == trajectory.v[Len(trajectory.v)]
            outcome == fn_call.result.v
        IN  /\ trajectory.ok
            /\ Len(trajectory.v) = 1 + (a.t_next - a.t_current) \div SubStep
            /\ final.t = a.t_next
            /\ outcome.ok
            /\ Elements(outcome.v.names) = Elements(ModelStateNames)
            /\ \A i \in 1..3 : State_get(outcome.v, ModelStateNames[i]) = final.y[i]

\* The nodes process_node was called for in the step, in order
SolvedNodes(o) == [i \in 1..Len(o) |-> o[i].node]

C29_ExogenousNeverWritten ==
    [][(pc = "model" \/ pc = "run" \/ pc = "step") =>
           \A i \in 1..Len(collection) :
               collection[i].variable_type = "Exogenous" =>
                   /\ i <= Len(collection')
                   /\ collection'[i] = collection[i]
      ]_vars

\* Two or more components require the name, none produces it, and a series
\* (and no initial value) was supplied for it
SharedExternal(n) ==
    /\ n \in RequiredExternal
    /\ Supplied(n) /\ ~HasInitial(n)
    /\ Cardinality({b \in ComponentNodes : n \in DeclaredInputs(b)}) >= 2

\* C30: build() succeeds when components share a required name that none
\* produces and that is supplied (units agreeing, every other outside name
\* supplied too): no edge carries that name, each of its consumers without
\* a dependency edge is linked from the initial node, and the collection
\* holds the name once, Exogenous
C30_SharedExogenousInput ==
    [][( /\ Build
         /\ ~UnitMismatch
         /\ \A n \in RequiredExternal : Supplied(n)
         /\ \E n \in RequiredExternal : SharedExternal(n) ) =>
           /\ pc' = "model"
           /\ \A n \in RequiredExternal :
                  SharedExternal(n) =>
                      /\ \A e \in SeqSet(graph'.edges) :
                             e.weight.some => e.weight.v.name # n
                      /\ \A b \in ComponentNodes :
                             ( /\ n \in DeclaredInputs(b)
                               /\ ~\E e \in SeqSet(graph'.edges) :
                                      e.dst = b /\ DependencyEdge(e) ) =>
                                 \E e \in SeqSet(graph'.edges) :
                                     e.src = initial_node /\ e.dst = b
                      /\ Cardinality({k \in 1..Len(collection') :
                                         collection'[k].name = n}) = 1
                      /\ get_by_name(collection', n).v.variable_type = "Exogenous"
      ]_vars

====
